---- MODULE Spec2Model ----
(***************************************************************************)
(* A model of script.py: the brand average-rating report.                  *)
(*                                                                         *)
(*   main()                      parse arguments, validate the paths,      *)
(*                               read_csv_files, report handler, tabulate  *)
(*   read_csv_files(files)       csv.DictReader rows -> validated records  *)
(*   calculate_average_rating    group by brand, mean, round(.., 2), sort  *)
(*                                                                         *)
(* Text is modelled as sequences of one-character strings, so that         *)
(* str.strip, str.lower, str.endswith and float() are computed, not        *)
(* assumed.  A float is a record [k, v]: k = "num" with v the value in     *)
(* units of 1/Scale, k = "nan", or k = "inf" with v the sign.              *)
(***************************************************************************)
EXTENDS Integers, Sequences, FiniteSets, TLC

VARIABLES
    entry,        \* which function the run enters: "main", "main_patched", "read", "calc"
    cmdline,      \* what parse_args meets: "ok", "usage", "help"
    files,        \* args.files / the files argument of read_csv_files
    vlines,       \* the data lines of the file v.csv (the other files are fixed)
    arg,          \* the record list calculate_average_rating is called with directly,
                  \* or that a patched read_csv_files returns
    pc,           \* position of the run
    i,            \* index of the for loop over files
    valid_files,  \* main: valid_files
    data,         \* read_csv_files: data; then main: data
    report_data,  \* main: report_data / the value calculate_average_rating returned
    stdout,       \* messages written to sys.stdout, in order
    stderr,       \* messages written to sys.stderr, in order
    opened,       \* paths read_csv_files has opened, in order
    calls,        \* functions called so far, in order
    exited,       \* the process has terminated
    status        \* its exit status (0 while running)

vars == <<entry, cmdline, files, vlines, arg, pc, i, valid_files, data, report_data,
          stdout, stderr, opened, calls, exited, status>>

----------------------------------------------------------------------------
(* Bounds of the model *)

\* longest list of paths given to --files / read_csv_files
MaxFiles == 3
\* most data lines in the file v.csv
MaxRows == 1
\* longest record list given to calculate_average_rating when called directly
MaxRecords == 3

\* round(avg_rating, 2): ratings and averages are counted in units of 1/100
Scale == 100
\* the inclusive rating range of "rating < 0 or rating > 5"
MinRating == 0
MaxRating == 5

----------------------------------------------------------------------------
(* Text *)

Range(s) == {s[k] : k \in 1..Len(s)}

IsSpace(c) == c \in {" ", "\t"}

RECURSIVE LStrip(_)
LStrip(s) == IF s # <<>> /\ IsSpace(Head(s)) THEN LStrip(Tail(s)) ELSE s

RECURSIVE RStrip(_)
RStrip(s) ==
    IF s # <<>> /\ IsSpace(s[Len(s)]) THEN RStrip(SubSeq(s, 1, Len(s) - 1)) ELSE s

\* str.strip()
Strip(s) == RStrip(LStrip(s))

LowerChar(c) ==
    CASE c = "A" -> "a" [] c = "C" -> "c" [] c = "F" -> "f" [] c = "I" -> "i"
      [] c = "N" -> "n" [] c = "S" -> "s" [] c = "T" -> "t" [] c = "V" -> "v"
      [] c = "X" -> "x" [] c = "Y" -> "y"
      [] OTHER -> c

\* str.lower()
Lower(s) == [k \in 1..Len(s) |-> LowerChar(s[k])]

\* str.endswith(suffix)
EndsWith(s, suffix) ==
    /\ Len(s) >= Len(suffix)
    /\ SubSeq(s, Len(s) - Len(suffix) + 1, Len(s)) = suffix

CsvSuffix == <<".", "c", "s", "v">>

----------------------------------------------------------------------------
(* Floats *)

Num(v) == [k |-> "num", v |-> v]
NaN == [k |-> "nan", v |-> 0]
Inf(sign) == [k |-> "inf", v |-> sign]
\* the outcome of float() raising ValueError
ValueError == [k |-> "err", v |-> 0]

Digits == {"0", "1", "2", "3", "4", "5", "6", "7", "8", "9"}

DigitVal(c) ==
    CASE c = "0" -> 0 [] c = "1" -> 1 [] c = "2" -> 2 [] c = "3" -> 3 [] c = "4" -> 4
      [] c = "5" -> 5 [] c = "6" -> 6 [] c = "7" -> 7 [] c = "8" -> 8 [] c = "9" -> 9

RECURSIVE DigitsVal(_)
DigitsVal(s) ==
    IF s = <<>> THEN 0 ELSE 10 * DigitsVal(SubSeq(s, 1, Len(s) - 1)) + DigitVal(s[Len(s)])

\* the unsigned decimal literal digits[.digits]; at most two fraction digits are
\* representable in units of 1/Scale, and the texts of the model have no more
Decimal(s) ==
    LET dots == {k \in 1..Len(s) : s[k] = "."}
        dot == IF dots = {} THEN Len(s) + 1 ELSE CHOOSE k \in dots : TRUE
        ip == SubSeq(s, 1, dot - 1)
        fp == SubSeq(s, dot + 1, Len(s))
    IN  IF \/ Cardinality(dots) > 1
           \/ ip \o fp = <<>>
           \/ ~(Range(ip \o fp) \subseteq Digits)
           \/ Len(fp) > 2
        THEN ValueError
        ELSE Num(DigitsVal(ip) * Scale
                 + (IF Len(fp) = 0 THEN 0
                    ELSE IF Len(fp) = 1 THEN 10 * DigitsVal(fp)
                    ELSE DigitsVal(fp)))

\* float(text): surrounding whitespace is ignored, an optional sign, then
\* "nan", "inf", "infinity" in any case, or a decimal literal
Float(text) ==
    LET s == Strip(text)
        signed == s # <<>> /\ s[1] \in {"+", "-"}
        sign == IF signed /\ s[1] = "-" THEN -1 ELSE 1
        body == Lower(IF signed THEN Tail(s) ELSE s)
    IN  IF body = <<"n", "a", "n">> THEN NaN
        ELSE IF body \in {<<"i", "n", "f">>, <<"i", "n", "f", "i", "n", "i", "t", "y">>}
             THEN Inf(sign)
        ELSE LET d == Decimal(body)
             IN  IF d.k = "num" THEN Num(sign * d.v) ELSE d

\* a < b on floats: every comparison with nan is False
Lt(a, b) ==
    IF a.k = "nan" \/ b.k = "nan" THEN FALSE
    ELSE IF a.k = "inf" THEN a.v < 0 /\ ~(b.k = "inf" /\ b.v < 0)
    ELSE IF b.k = "inf" THEN b.v > 0
    ELSE a.v < b.v

\* a + b on floats
Add(a, b) ==
    IF a.k = "nan" \/ b.k = "nan" THEN NaN
    ELSE IF a.k = "inf" /\ b.k = "inf" THEN (IF a.v = b.v THEN a ELSE NaN)
    ELSE IF a.k = "inf" THEN a
    ELSE IF b.k = "inf" THEN b
    ELSE Num(a.v + b.v)

----------------------------------------------------------------------------
(* The files *)

\* a value csv.DictReader gives a field: a string, or None for a field the
\* line is too short to hold (restval)
Some(s) == [none |-> FALSE, s |-> s]
None == [none |-> TRUE, s |-> <<>>]

\* "not value" on such a field: None and '' are falsy
Falsy(x) == x.none \/ x.s = <<>>

PathA == <<"a", ".", "C", "s", "v">>
PathV == <<"v", ".", "c", "s", "v">>
PathNoCol == <<"n", ".", "c", "s", "v">>
PathTxt == <<"d", ".", "t", "x", "t">>
PathMissing == <<"m", ".", "t", "x", "t">>
PathLocked == <<"l", ".", "c", "s", "v">>
PathBin == <<"x", ".", "c", "s", "v">>

Paths == {PathA, PathV, PathNoCol, PathTxt, PathMissing, PathLocked, PathBin}

FullHeader == <<"name", "brand", "rating">>

\* the data lines v.csv may hold, each a sequence of cells
LineUniverse ==
    { <<<<"p">>, <<" ", "s", "o", " ">>, <<" ", "5", " ">>>>, \* accepted once trimmed
      <<<<"p">>, <<"A", "p">>, <<"0">>>>,                     \* accepted, lower limit
      <<<<"p">>, <<"s", "o">>, <<"n", "a", "n">>>>,           \* float() accepts nan
      <<<<"p">>, <<"s", "o">>, <<"-", "1">>>>,                \* below the range
      <<<<"p">>, <<"a", "p">>, <<"a", "b", "c">>>>,           \* not a number
      <<<<"p">>, <<" ">>, <<"4", ".", "0">>>>,                \* brand blank once trimmed
      <<<<"p">>, <<>>, <<"4", ".", "0">>>>,                   \* brand empty
      <<<<"p">>, <<"a", "p">>>>,                              \* no rating cell
      <<>> }                                                  \* a blank line

\* the file system: what os.path.isfile, os.access and open() meet for a path,
\* and what the file holds
File(path, lines) ==
    CASE path = PathA ->
           [isfile |-> TRUE, readable |-> TRUE, open |-> "ok", header |-> FullHeader,
            lines |-> << <<<<"i">>, <<"a", "p">>, <<"4", ".", "7">>>>,
                         <<<<"e">>, <<"s", "o">>, <<"6", ".", "0">>>>,
                         <<<<"g">>, <<"s", "a">>, <<"4", ".", "5">>>> >>]
      [] path = PathV ->
           [isfile |-> TRUE, readable |-> TRUE, open |-> "ok", header |-> FullHeader,
            lines |-> lines]
      [] path = PathNoCol ->
           [isfile |-> TRUE, readable |-> TRUE, open |-> "ok",
            header |-> <<"name", "rating">>,
            lines |-> << <<<<"p">>, <<"4", ".", "7">>>> >>]
      [] path = PathTxt ->
           [isfile |-> TRUE, readable |-> FALSE, open |-> "perm", header |-> FullHeader,
            lines |-> << <<<<"p">>, <<"a", "p">>, <<"4", ".", "5">>>> >>]
      [] path = PathMissing ->
           [isfile |-> FALSE, readable |-> FALSE, open |-> "notfound", header |-> <<>>,
            lines |-> <<>>]
      [] path = PathLocked ->
           [isfile |-> TRUE, readable |-> FALSE, open |-> "perm", header |-> FullHeader,
            lines |-> <<>>]
      [] path = PathBin ->
           [isfile |-> TRUE, readable |-> TRUE, open |-> "other", header |-> <<>>,
            lines |-> <<>>]

\* a message print() writes
Msg(kind, file, row) == [msg |-> kind, file |-> file, row |-> row]

----------------------------------------------------------------------------
(* read_csv_files: one file *)

\* csv.DictReader: a row maps each header name to the cell at its position
DictRow(header, cells) ==
    [c \in Range(header) |->
        LET pos == CHOOSE k \in 1..Len(header) : header[k] = c
        IN  IF pos <= Len(cells) THEN Some(cells[pos]) ELSE None]

\* csv.DictReader yields no row for a blank line
RECURSIVE DictRows(_, _)
DictRows(header, lines) ==
    IF lines = <<>> THEN <<>>
    ELSE IF Head(lines) = <<>> THEN DictRows(header, Tail(lines))
    ELSE <<DictRow(header, Head(lines))>> \o DictRows(header, Tail(lines))

\* "rating < 0 or rating > 5"
OutOfRange(rating) ==
    Lt(rating, Num(MinRating * Scale)) \/ Lt(Num(MaxRating * Scale), rating)

\* the body of the loop over rows: what becomes of one row
RowOutcome(row) ==
    IF Falsy(row["brand"]) \/ Falsy(row["rating"]) THEN [kind |-> "skip"]
    ELSE LET brand == Strip(row["brand"].s)
             rating_str == Strip(row["rating"].s)
         IN  IF brand = <<>> \/ rating_str = <<>> THEN [kind |-> "skip"]
             ELSE LET rating == Float(rating_str)
                  IN  IF rating.k = "err" THEN [kind |-> "format"]
                      ELSE IF OutOfRange(rating) THEN [kind |-> "range"]
                      ELSE [kind |-> "accept",
                            rec |-> [row EXCEPT !["brand"] = brand, !["rating"] = rating]]

\* the loop over rows from row number row_num on: the records appended to
\* data and the warnings printed
RECURSIVE ReadRows(_, _, _)
ReadRows(file, rows, row_num) ==
    IF rows = <<>> THEN [recs |-> <<>>, out |-> <<>>]
    ELSE LET o == RowOutcome(Head(rows))
             rest == ReadRows(file, Tail(rows), row_num + 1)
         IN  [recs |-> (IF o.kind = "accept" THEN <<o.rec>> ELSE <<>>) \o rest.recs,
              out |-> (IF o.kind = "format" THEN <<Msg("warn_format", file, row_num)>>
                       ELSE IF o.kind = "range" THEN <<Msg("warn_range", file, row_num)>>
                       ELSE <<>>) \o rest.out]

HasColumns(header) == \A field \in {"brand", "rating"} : field \in Range(header)

\* the body of the loop over files for a file that opens: the records it adds
\* to data and the warnings printed
ReadFile(file, f) ==
    IF ~HasColumns(f.header)
    THEN [recs |-> <<>>, out |-> <<Msg("warn_columns", file, 0)>>]
    ELSE LET r == ReadRows(file, DictRows(f.header, f.lines), 2)
         IN  [recs |-> r.recs,
              out |-> r.out \o (IF r.recs = <<>> THEN <<Msg("warn_no_valid", file, 0)>>
                                ELSE <<>>)]

----------------------------------------------------------------------------
(* calculate_average_rating *)

\* row['brand'] and row['rating'] both succeed (no KeyError)
HasKeys(row) == "brand" \in DOMAIN row /\ "rating" \in DOMAIN row

\* the keys of brand_ratings in insertion order: each brand at its first
\* occurrence among the rows that raise no KeyError
RECURSIVE BrandOrder(_, _)
BrandOrder(rows, seen) ==
    IF rows = <<>> THEN seen
    ELSE LET row == Head(rows)
         IN  IF HasKeys(row) /\ row["brand"] \notin Range(seen)
             THEN BrandOrder(Tail(rows), Append(seen, row["brand"]))
             ELSE BrandOrder(Tail(rows), seen)

\* brand_ratings[brand]: the ratings appended for the brand, in order
RECURSIVE BrandRatings(_, _)
BrandRatings(rows, brand) ==
    IF rows = <<>> THEN <<>>
    ELSE LET row == Head(rows)
         IN  (IF HasKeys(row) /\ row["brand"] = brand THEN <<row["rating"]>> ELSE <<>>)
             \o BrandRatings(Tail(rows), brand)

\* skipped_count
SkippedCount(rows) == Cardinality({k \in 1..Len(rows) : ~HasKeys(rows[k])})

\* sum(ratings)
RECURSIVE Sum(_)
Sum(ratings) ==
    IF ratings = <<>> THEN Num(0)
    ELSE Add(Sum(SubSeq(ratings, 1, Len(ratings) - 1)), ratings[Len(ratings)])

\* the mean sum/n lies exactly half way between two multiples of 1/Scale
IsTie(ratings) ==
    LET total == Sum(ratings)
    IN  total.k = "num" /\ 2 * (total.v % Len(ratings)) = Len(ratings)

\* a mutant of RoundedMean: the mean is truncated to two decimals, not rounded
RoundedMeanTruncates(ratings, up) ==
    LET total == Sum(ratings)
    IN  IF total.k # "num" THEN total ELSE Num(total.v \div Len(ratings))

\* round(sum(ratings) / len(ratings), 2).  A mean half way between two
\* multiples of 1/Scale goes to the one the binary double of the mean is
\* nearer to, which the decimal value does not determine: up says which.
RoundedMean(ratings, up) ==
    LET total == Sum(ratings)
        n == Len(ratings)
    IN  IF total.k # "num" THEN total
        ELSE LET q == total.v \div n
                 r == total.v % n
             IN  IF 2 * r < n THEN Num(q)
                 ELSE IF 2 * r > n THEN Num(q + 1)
                 ELSE IF up THEN Num(q + 1) ELSE Num(q)

Reverse(s) == [k \in 1..Len(s) |-> s[Len(s) + 1 - k]]

KeyLt(x, y) == Lt(x.average_rating, y.average_rating)

\* list.sort, count_run: the length of the run that starts the list, k
\* elements of which are known; a descending run is strictly descending
RECURSIVE RunLength(_, _, _)
RunLength(s, descending, k) ==
    IF k < Len(s) /\ (KeyLt(s[k + 1], s[k]) <=> descending)
    THEN RunLength(s, descending, k + 1)
    ELSE k

\* list.sort, binarysort: where the pivot goes in the sorted s[lo..hi-1]
RECURSIVE InsertionPoint(_, _, _, _)
InsertionPoint(s, pivot, lo, hi) ==
    IF lo >= hi THEN lo
    ELSE LET p == lo + ((hi - lo) \div 2)
         IN  IF KeyLt(pivot, s[p]) THEN InsertionPoint(s, pivot, lo, p)
             ELSE InsertionPoint(s, pivot, p + 1, hi)

\* list.sort, binarysort: s[1..start-1] is sorted; insert the rest one by one
RECURSIVE BinarySort(_, _)
BinarySort(s, start) ==
    IF start > Len(s) THEN s
    ELSE LET at == InsertionPoint(s, s[start], 1, start)
         IN  BinarySort(SubSeq(s, 1, at - 1) \o <<s[start]>> \o SubSeq(s, at, start - 1)
                          \o SubSeq(s, start + 1, Len(s)),
                        start + 1)

\* list.sort on a list shorter than 64 elements: the starting run (reversed
\* when descending), then binary insertion; only "<" on the keys is used
SortAscending(s) ==
    IF Len(s) < 2 THEN s
    ELSE LET descending == KeyLt(s[2], s[1])
             n == RunLength(s, descending, 2)
             run == IF descending
                    THEN Reverse(SubSeq(s, 1, n)) \o SubSeq(s, n + 1, Len(s))
                    ELSE s
         IN  BinarySort(run, n + 1)

\* sorted(report, key=lambda x: x['average_rating'], reverse=True): the list
\* is reversed, sorted ascending and reversed again, which keeps it stable
Sorted(report) == Reverse(SortAscending(Reverse(report)))

\* the brands whose mean is a tie
TieBrands(rows) ==
    {b \in Range(BrandOrder(rows, <<>>)) : IsTie(BrandRatings(rows, b))}

\* the report list before sorting: one entry per key of brand_ratings
Report(rows, up) ==
    LET brands == BrandOrder(rows, <<>>)
    IN  [k \in 1..Len(brands) |->
            [brand |-> brands[k],
             average_rating |-> RoundedMean(BrandRatings(rows, brands[k]), brands[k] \in up)]]

\* the value calculate_average_rating returns
CalculateAverageRating(rows, up) ==
    IF BrandOrder(rows, <<>>) = <<>> THEN <<>> ELSE Sorted(Report(rows, up))

\* what calculate_average_rating prints
CalculateOutput(rows) ==
    (IF SkippedCount(rows) > 0 THEN <<Msg("warn_skipped", <<>>, SkippedCount(rows))>>
     ELSE <<>>)
    \o (IF BrandOrder(rows, <<>>) = <<>> THEN <<Msg("err_no_ratings", <<>>, 0)>> ELSE <<>>)

----------------------------------------------------------------------------
(* The runs *)

SeqsUpTo(S, n) == UNION {[1..k -> S] : k \in 0..n}

Rec(brand, rating) == [brand |-> brand, rating |-> rating]

\* the records calculate_average_rating is called with directly
RecordUniverse ==
    { Rec(<<"a", "p">>, Num(433)), Rec(<<"a", "p">>, Num(434)),
      Rec(<<"a", "p">>, Num(400)), Rec(<<"a", "p">>, Num(500)),
      Rec(<<"s", "o">>, Num(433)), Rec(<<"s", "o">>, Num(500)),
      Rec(<<"A", "p">>, Num(500)), Rec(<<"s", "o">>, NaN),
      [brand |-> <<"a", "p">>],                           \* no rating key
      [not_brand |-> <<"s", "o">>, rating |-> Num(400)],  \* no brand key
      Rec(<<>>, Num(450)) }                               \* empty brand

\* the values a patched read_csv_files returns
PatchedReturns == {<<>>, <<Rec(<<"a", "p">>, Num(450))>>}

\* a mutant of ValidationError: the extension is checked before the existence
ValidationErrorExtensionFirst(file) ==
    LET f == File(file, <<>>)
    IN  IF ~EndsWith(Lower(file), CsvSuffix) THEN "err_not_csv"
        ELSE IF ~f.isfile THEN "err_not_exist"
        ELSE IF ~f.readable THEN "err_no_access"
        ELSE "ok"

\* the check main makes of one path: the message of the first check that fails
ValidationError(file) ==
    LET f == File(file, <<>>)
    IN  IF ~f.isfile THEN "err_not_exist"
        ELSE IF ~EndsWith(Lower(file), CsvSuffix) THEN "err_not_csv"
        ELSE IF ~f.readable THEN "err_no_access"
        ELSE "ok"

\* the run opens the file at path: main has found every path valid, and
\* read_csv_files reaches the path before a file that fails to open
Opens(e, list, path) ==
    /\ e \in {"main", "read"}
    /\ e = "main" => \A k \in 1..Len(list) : ValidationError(list[k]) = "ok"
    /\ \E k \in 1..Len(list) :
          /\ list[k] = path
          /\ \A j \in 1..(k - 1) : File(list[j], <<>>).open = "ok"

InMain == entry \in {"main", "main_patched"}

Init ==
    /\ entry \in {"main", "main_patched", "read", "calc"}
    /\ cmdline \in (IF entry = "main" THEN {"ok", "usage", "help"} ELSE {"ok"})
    /\ files \in (IF entry = "calc" \/ cmdline # "ok" THEN {<<>>}
                  ELSE IF entry = "read" THEN SeqsUpTo(Paths, MaxFiles)
                  ELSE SeqsUpTo(Paths, MaxFiles) \ {<<>>})
    /\ vlines \in (IF Opens(entry, files, PathV) THEN SeqsUpTo(LineUniverse, MaxRows)
                   ELSE {<<>>})
    /\ arg \in (IF entry = "calc" THEN SeqsUpTo(RecordUniverse, MaxRecords)
                ELSE IF entry = "main_patched" THEN PatchedReturns
                ELSE {<<>>})
    /\ pc = "start"
    /\ i = 1
    /\ valid_files = <<>>
    /\ data = <<>>
    /\ report_data = <<>>
    /\ stdout = <<>>
    /\ stderr = <<>>
    /\ opened = <<>>
    /\ calls = <<>>
    /\ exited = FALSE
    /\ status = 0

\* sys.exit(code), or main returning
Exit(code) ==
    /\ pc' = "done"
    /\ exited' = TRUE
    /\ status' = code

\* parse_args returns: --files holds one path or more and --report is a key of
\* report_handlers
ParseArgsOk ==
    /\ InMain /\ pc = "start" /\ cmdline = "ok"
    /\ pc' = "validate"
    /\ i' = 1
    /\ calls' = Append(calls, "parse_args")
    /\ UNCHANGED <<entry, cmdline, files, vlines, arg, valid_files, data, report_data,
                   stdout, stderr, opened, exited, status>>

\* parse_args meets a missing --files or a --report outside the choices:
\* argparse prints the usage to stderr and calls sys.exit(2)
ParseArgsUsage ==
    /\ InMain /\ pc = "start" /\ cmdline = "usage"
    /\ stderr' = Append(stderr, Msg("usage", <<>>, 0))
    /\ calls' = Append(calls, "parse_args")
    /\ Exit(2)
    /\ UNCHANGED <<entry, cmdline, files, vlines, arg, i, valid_files, data, report_data,
                   stdout, opened>>

\* parse_args meets -h: argparse prints the help to stdout and calls sys.exit(0)
ParseArgsHelp ==
    /\ InMain /\ pc = "start" /\ cmdline = "help"
    /\ stdout' = Append(stdout, Msg("help", <<>>, 0))
    /\ calls' = Append(calls, "parse_args")
    /\ Exit(0)
    /\ UNCHANGED <<entry, cmdline, files, vlines, arg, i, valid_files, data, report_data,
                   stderr, opened>>

\* main, one iteration of "for file in args.files" for a path that passes
ValidateFilePass ==
    /\ InMain /\ pc = "validate" /\ i <= Len(files)
    /\ ValidationError(files[i]) = "ok"
    /\ valid_files' = Append(valid_files, files[i])
    /\ i' = i + 1
    /\ UNCHANGED <<entry, cmdline, files, vlines, arg, pc, data, report_data, stdout,
                   stderr, opened, calls, exited, status>>

\* main, one iteration of "for file in args.files" for a path that fails
ValidateFileFail ==
    /\ InMain /\ pc = "validate" /\ i <= Len(files)
    /\ ValidationError(files[i]) # "ok"
    /\ stdout' = Append(stdout, Msg(ValidationError(files[i]), files[i], 0))
    /\ Exit(1)
    /\ UNCHANGED <<entry, cmdline, files, vlines, arg, i, valid_files, data, report_data,
                   stderr, opened, calls>>

\* main after the loop: "if not valid_files", else the call of read_csv_files
ValidateEnd ==
    /\ InMain /\ pc = "validate" /\ i > Len(files)
    /\ IF valid_files = <<>>
       THEN /\ stdout' = Append(stdout, Msg("err_no_valid_files", <<>>, 0))
            /\ Exit(1)
            /\ UNCHANGED <<i, calls>>
       ELSE /\ pc' = "read"
            /\ i' = 1
            /\ calls' = Append(calls, "read_csv_files")
            /\ UNCHANGED <<stdout, exited, status>>
    /\ UNCHANGED <<entry, cmdline, files, vlines, arg, valid_files, data, report_data,
                   stderr, opened>>

\* read_csv_files called directly with the list files
CallReadCsvFiles ==
    /\ entry = "read" /\ pc = "start"
    /\ pc' = "read"
    /\ i' = 1
    /\ calls' = Append(calls, "read_csv_files")
    /\ UNCHANGED <<entry, cmdline, files, vlines, arg, valid_files, data, report_data,
                   stdout, stderr, opened, exited, status>>

\* the files argument of read_csv_files
ReadList == IF entry = "read" THEN files ELSE valid_files

\* the message of the except clause that catches what open() raises
OpenError(outcome) ==
    CASE outcome = "notfound" -> "err_not_found"
      [] outcome = "perm" -> "err_permission"
      [] outcome = "other" -> "err_read"

\* read_csv_files, one iteration of "for file in files": open() or decoding raises
ReadFileFail ==
    /\ entry \in {"main", "read"} /\ pc = "read" /\ i <= Len(ReadList)
    /\ File(ReadList[i], vlines).open # "ok"
    /\ stdout' = Append(stdout, Msg(OpenError(File(ReadList[i], vlines).open), ReadList[i], 0))
    /\ Exit(1)
    /\ UNCHANGED <<entry, cmdline, files, vlines, arg, i, valid_files, data, report_data,
                   stderr, opened, calls>>

\* a mutant of ReadFileOk: a file with missing columns ends the loop over the
\* files ("break" for "continue")
ReadFileOkBreaks ==
    /\ entry \in {"main", "read"} /\ pc = "read" /\ i <= Len(ReadList)
    /\ File(ReadList[i], vlines).open = "ok"
    /\ LET r == ReadFile(ReadList[i], File(ReadList[i], vlines))
       IN  /\ data' = data \o r.recs
           /\ stdout' = stdout \o r.out
    /\ opened' = Append(opened, ReadList[i])
    /\ i' = IF HasColumns(File(ReadList[i], vlines).header) THEN i + 1
            ELSE Len(ReadList) + 1
    /\ UNCHANGED <<entry, cmdline, files, vlines, arg, pc, valid_files, report_data,
                   stderr, calls, exited, status>>

\* read_csv_files, one iteration of "for file in files": the file opens
ReadFileOk ==
    /\ entry \in {"main", "read"} /\ pc = "read" /\ i <= Len(ReadList)
    /\ File(ReadList[i], vlines).open = "ok"
    /\ LET r == ReadFile(ReadList[i], File(ReadList[i], vlines))
       IN  /\ data' = data \o r.recs
           /\ stdout' = stdout \o r.out
    /\ opened' = Append(opened, ReadList[i])
    /\ i' = i + 1
    /\ UNCHANGED <<entry, cmdline, files, vlines, arg, pc, valid_files, report_data,
                   stderr, calls, exited, status>>

\* a mutant of ReadEnd: data is returned without the "if not data" check
ReadEndReturnsEmpty ==
    /\ entry \in {"main", "read"} /\ pc = "read" /\ i > Len(ReadList)
    /\ pc' = (IF entry = "read" THEN "done" ELSE "calc")
    /\ UNCHANGED <<entry, cmdline, files, vlines, arg, i, valid_files, data, report_data,
                   stdout, stderr, opened, calls, exited, status>>

\* read_csv_files after the loop: "if not data", else "return data"
ReadEnd ==
    /\ entry \in {"main", "read"} /\ pc = "read" /\ i > Len(ReadList)
    /\ IF data = <<>>
       THEN /\ stdout' = Append(stdout, Msg("err_no_data", <<>>, 0))
            /\ Exit(1)
       ELSE /\ pc' = (IF entry = "read" THEN "done" ELSE "calc")
            /\ UNCHANGED <<stdout, exited, status>>
    /\ UNCHANGED <<entry, cmdline, files, vlines, arg, i, valid_files, data, report_data,
                   stderr, opened, calls>>

\* a read_csv_files replaced by a stub returns the stub's value
PatchedRead ==
    /\ entry = "main_patched" /\ pc = "read"
    /\ data' = arg
    /\ pc' = "calc"
    /\ UNCHANGED <<entry, cmdline, files, vlines, arg, i, valid_files, report_data,
                   stdout, stderr, opened, calls, exited, status>>

\* calculate_average_rating called directly with the list arg
CallCalculate ==
    /\ entry = "calc" /\ pc = "start"
    /\ data' = arg
    /\ pc' = "calc"
    /\ UNCHANGED <<entry, cmdline, files, vlines, arg, i, valid_files, report_data,
                   stdout, stderr, opened, calls, exited, status>>

\* report_handlers[args.report](data): calculate_average_rating runs and returns
Calculate ==
    /\ pc = "calc"
    /\ \E up \in SUBSET TieBrands(data) :
          report_data' = CalculateAverageRating(data, up)
    /\ stdout' = stdout \o CalculateOutput(data)
    /\ calls' = Append(calls, "calculate_average_rating")
    /\ pc' = (IF entry = "calc" THEN "done" ELSE "report")
    /\ UNCHANGED <<entry, cmdline, files, vlines, arg, i, valid_files, data, stderr,
                   opened, exited, status>>

\* a mutant of ReportEmpty: the empty report is an error, sys.exit(1)
ReportEmptyFails ==
    /\ InMain /\ pc = "report" /\ report_data = <<>>
    /\ stdout' = Append(stdout, Msg("empty_report", <<>>, 0))
    /\ Exit(1)
    /\ UNCHANGED <<entry, cmdline, files, vlines, arg, i, valid_files, data, report_data,
                   stderr, opened, calls>>

\* main: "if not report_data"
ReportEmpty ==
    /\ InMain /\ pc = "report" /\ report_data = <<>>
    /\ stdout' = Append(stdout, Msg("empty_report", <<>>, 0))
    /\ Exit(0)
    /\ UNCHANGED <<entry, cmdline, files, vlines, arg, i, valid_files, data, report_data,
                   stderr, opened, calls>>

\* main: print(tabulate(report_data, ...)), then main returns
ReportTable ==
    /\ InMain /\ pc = "report" /\ report_data # <<>>
    /\ stdout' = Append(stdout, Msg("table", <<>>, Len(report_data)))
    /\ calls' = Append(calls, "tabulate")
    /\ Exit(0)
    /\ UNCHANGED <<entry, cmdline, files, vlines, arg, i, valid_files, data, report_data,
                   stderr, opened>>

\* main: KeyboardInterrupt raised anywhere in the try block
Interrupt ==
    /\ InMain /\ pc # "done"
    /\ stdout' = Append(stdout, Msg("interrupted", <<>>, 0))
    /\ Exit(1)
    /\ UNCHANGED <<entry, cmdline, files, vlines, arg, i, valid_files, data, report_data,
                   stderr, opened, calls>>

\* main: another exception raised in the try block, by parse_args or by
\* tabulate and print
UnexpectedError ==
    /\ InMain /\ pc \in {"start", "report"}
    /\ stdout' = Append(stdout, Msg("err_unexpected", <<>>, 0))
    /\ Exit(1)
    /\ UNCHANGED <<entry, cmdline, files, vlines, arg, i, valid_files, data, report_data,
                   stderr, opened, calls>>

Next ==
    \/ ParseArgsOk
    \/ ParseArgsUsage
    \/ ParseArgsHelp
    \/ ValidateFilePass
    \/ ValidateFileFail
    \/ ValidateEnd
    \/ CallReadCsvFiles
    \/ ReadFileFail
    \/ ReadFileOk
    \/ ReadEnd
    \/ PatchedRead
    \/ CallCalculate
    \/ Calculate
    \/ ReportEmpty
    \/ ReportTable
    \/ Interrupt
    \/ UnexpectedError

Spec == Init /\ [][Next]_vars

----------------------------------------------------------------------------
(* Properties *)

Last(s) == s[Len(s)]

\* read_csv_files has returned its data to its caller
ReadReturned ==
    \/ entry = "read" /\ pc = "done" /\ ~exited
    \/ entry = "main" /\ (pc \in {"calc", "report"}
                          \/ "calculate_average_rating" \in Range(calls))

\* calculate_average_rating has returned report_data
CalcReturned == "calculate_average_rating" \in Range(calls)

\* a record as the data model wants it: a brand that is non-empty and
\* trimmed, a rating that is a number from MinRating to MaxRating
ValidRecord(rec) ==
    /\ rec["brand"] # <<>>
    /\ ~IsSpace(rec["brand"][1])
    /\ ~IsSpace(Last(rec["brand"]))
    /\ rec["rating"].k = "num"
    /\ MinRating * Scale <= rec["rating"].v
    /\ rec["rating"].v <= MaxRating * Scale

\* C1: every record read_csv_files holds or returns has a non-empty trimmed
\* brand and a rating that is a number r with 0 <= r <= 5, whatever rating
\* text float() accepts
C1_RecordInvariant ==
    entry \in {"main", "read"} => \A k \in 1..Len(data) : ValidRecord(data[k])

\* a row the specification calls accepted: brand and rating non-empty once
\* trimmed, the rating a number within the range
AcceptedRow(row) ==
    /\ ~row["brand"].none /\ ~row["rating"].none
    /\ Strip(row["brand"].s) # <<>>
    /\ Strip(row["rating"].s) # <<>>
    /\ LET r == Float(Strip(row["rating"].s))
       IN  r.k = "num" /\ MinRating * Scale <= r.v /\ r.v <= MaxRating * Scale

AsRecord(row) ==
    [row EXCEPT !["brand"] = Strip(row["brand"].s),
                !["rating"] = Float(Strip(row["rating"].s))]

\* the accepted rows of a list of files, files in list order and the rows of
\* a file in file order
RECURSIVE AcceptedRecords(_)
AcceptedRecords(list) ==
    IF list = <<>> THEN <<>>
    ELSE LET f == File(Head(list), vlines)
         IN  (IF f.open = "ok" /\ HasColumns(f.header)
              THEN LET kept == SelectSeq(DictRows(f.header, f.lines), AcceptedRow)
                   IN  [k \in 1..Len(kept) |-> AsRecord(kept[k])]
              ELSE <<>>)
             \o AcceptedRecords(Tail(list))

\* C2: what read_csv_files returns is exactly the sequence of accepted rows,
\* files in input-list order and rows in file order, nothing dropped,
\* duplicated or reordered, and no rejected row in it
C2_IngestionOrder ==
    ReadReturned => data = AcceptedRecords(ReadList)

\* no file of the list yields a record
NoRowAccepted(list) ==
    \A k \in 1..Len(list) :
        LET f == File(list[k], vlines)
        IN  f.open # "ok" \/ ReadFile(list[k], f).recs = <<>>

FirstFailedCheck(path) ==
    LET f == File(path, vlines)
        ext == SubSeq(path, Len(path) - 3, Len(path))
    IN  IF ~f.isfile THEN "err_not_exist"
        ELSE IF Len(path) < 4 \/ Lower(ext) # <<".", "c", "s", "v">> THEN "err_not_csv"
        ELSE IF ~f.readable THEN "err_no_access"
        ELSE "ok"

FailingPositions == {k \in 1..Len(files) : FirstFailedCheck(files[k]) # "ok"}

FirstFailing == CHOOSE k \in FailingPositions : \A j \in FailingPositions : k <= j

\* C4: main checks the paths in list order, each for (a), (b), (c) in that
\* order; the first failing check ends the process with status 1, and in such
\* a run no input file has been opened, not even an earlier valid one
C4_ValidatorFailFast ==
    InMain /\ cmdline = "ok" /\ FailingPositions # {} =>
        /\ opened = <<>>
        /\ "read_csv_files" \notin Range(calls)
        /\ pc \notin {"read", "calc", "report"}
        /\ Len(valid_files) < FirstFailing
        /\ valid_files = SubSeq(files, 1, Len(valid_files))
        /\ pc = "done" => exited /\ status = 1
        /\ pc = "done" /\ Last(stdout).msg \notin {"interrupted", "err_unexpected"} =>
              /\ stdout = <<Msg(FirstFailedCheck(files[FirstFailing]),
                                files[FirstFailing], 0)>>
              /\ valid_files = SubSeq(files, 1, FirstFailing - 1)

\* a run ended by a failing path that follows a valid one, nothing opened
C4_Witness ==
    /\ InMain /\ pc = "done" /\ exited /\ status = 1
    /\ valid_files # <<>>
    /\ Len(files) > Len(valid_files)
    /\ Last(stdout) = Msg(FirstFailedCheck(files[Len(valid_files) + 1]),
                          files[Len(valid_files) + 1], 0)
    /\ Last(stdout).msg = "err_not_csv"
    /\ opened = <<>>

\* a file that opens and whose header lacks brand or rating
MissingColumns(path) ==
    LET f == File(path, vlines) IN f.open = "ok" /\ ~HasColumns(f.header)

KeepsColumns(path) == ~MissingColumns(path)

\* the records the files of a list add to data, one file after the other
RECURSIVE ListRecords(_)
ListRecords(list) ==
    IF list = <<>> THEN <<>>
    ELSE ReadFile(Head(list), File(Head(list), vlines)).recs \o ListRecords(Tail(list))

\* how read_csv_files ends on a list: it exits when a file fails to open or
\* to decode, or when no record is accepted, and returns the records otherwise
ReadOutcome(list) ==
    IF \E k \in 1..Len(list) : File(list[k], vlines).open # "ok"
    THEN [exits |-> TRUE, data |-> <<>>]
    ELSE IF ListRecords(list) = <<>> THEN [exits |-> TRUE, data |-> <<>>]
    ELSE [exits |-> FALSE, data |-> ListRecords(list)]

\* read_csv_files has ended, by returning or by its own sys.exit
ReadEnded ==
    \/ ReadReturned
    \/ /\ entry \in {"main", "read"} /\ exited /\ stdout # <<>>
       /\ Last(stdout).msg \in {"err_not_found", "err_permission", "err_read", "err_no_data"}

RunOutcome ==
    IF ReadReturned THEN [exits |-> FALSE, data |-> data]
    ELSE [exits |-> TRUE, data |-> <<>>]

DiagnosticKinds ==
    {"err_not_exist", "err_not_csv", "err_no_access", "err_no_valid_files",
     "err_not_found", "err_permission", "err_read", "err_no_data",
     "warn_columns", "warn_format", "warn_range", "warn_no_valid",
     "warn_skipped", "err_no_ratings", "empty_report", "interrupted",
     "err_unexpected"}

\* C6: every diagnostic is written to the error stream, and the only thing
\* ever written to standard output is the rendered table
C6_StreamSeparation ==
    /\ \A k \in 1..Len(stdout) : stdout[k].msg = "table"
    /\ \A k \in 1..Len(stderr) : stderr[k].msg \in DiagnosticKinds \cup {"usage"}

\* the diagnostics of the abort conditions
AbortKinds ==
    {"err_not_exist", "err_not_csv", "err_no_access", "err_no_valid_files",
     "err_not_found", "err_permission", "err_read", "err_no_data",
     "interrupted", "err_unexpected"}

\* the last thing the run wrote
LastMessage ==
    IF cmdline = "usage" /\ stderr # <<>> THEN Last(stderr).msg
    ELSE IF stdout # <<>> THEN Last(stdout).msg
    ELSE "none"

BrandSet(rows) == {rows[k]["brand"] : k \in 1..Len(rows)}

\* the number of records of a brand, and the total of their ratings
CountOf(rows, brand) == Cardinality({k \in 1..Len(rows) : rows[k]["brand"] = brand})

RECURSIVE TotalOf(_, _)
TotalOf(rows, brand) ==
    IF rows = <<>> THEN 0
    ELSE (IF Head(rows)["brand"] = brand THEN Head(rows)["rating"].v ELSE 0)
         + TotalOf(Tail(rows), brand)

\* a is total/n rounded to a multiple of 1/Scale: no further from it than half
IsRounded(a, total, n) ==
    /\ 2 * (a * n - total) <= n
    /\ 2 * (total - a * n) <= n

AllValid(rows) == \A k \in 1..Len(rows) : HasKeys(rows[k]) /\ ValidRecord(rows[k])

ThreeRatings ==
    <<Rec(<<"a", "p">>, Num(400)), Rec(<<"a", "p">>, Num(400)),
      Rec(<<"a", "p">>, Num(500))>>

\* C8: for valid records calculate_average_rating returns exactly one row per
\* distinct brand (case-sensitive), whose average_rating is the mean of the
\* brand's ratings rounded to two decimal places (4.0, 4.0, 5.0 give 4.33);
\* an empty input gives an empty output; it never terminates the process
C8_AggregationResult ==
    CalcReturned /\ AllValid(data) =>
        /\ BrandSet(report_data) = BrandSet(data)
        /\ Len(report_data) = Cardinality(BrandSet(data))
        /\ \A k \in 1..Len(report_data) :
              LET row == report_data[k]
              IN  /\ row.average_rating.k = "num"
                  /\ IsRounded(row.average_rating.v, TotalOf(data, row.brand),
                               CountOf(data, row.brand))
        /\ data = <<>> => report_data = <<>>
        /\ data = ThreeRatings => report_data = <<[brand |-> <<"a", "p">>,
                                                   average_rating |-> Num(433)]>>
        /\ entry = "calc" => ~exited /\ pc = "done"

\* the ratings 4.0, 4.0, 5.0 of one brand have given the average 4.33
C8_Witness ==
    /\ CalcReturned
    /\ data = ThreeRatings
    /\ report_data = <<[brand |-> <<"a", "p">>, average_rating |-> Num(433)]>>

\* a record with a usable brand/rating pair: both keys and a non-empty brand
Usable(rec) == HasKeys(rec) /\ rec["brand"] # <<>>

\* C9: a record with no brand key, no rating key or an empty brand is left
\* out of the grouping: it gives no report row and changes no average, and
\* when every record is unusable the result is the empty list
C9_UnusableExcluded ==
    entry = "calc" /\ CalcReturned =>
        /\ BrandSet(report_data) = BrandSet(SelectSeq(data, Usable))
        /\ SelectSeq(data, Usable) = <<>> => report_data = <<>>

\* the position of the first record of a brand
FirstIndex(rows, brand) ==
    CHOOSE k \in 1..Len(rows) :
        /\ HasKeys(rows[k]) /\ rows[k]["brand"] = brand
        /\ \A j \in 1..(k - 1) : ~(HasKeys(rows[j]) /\ rows[j]["brand"] = brand)

\* C10: the rows calculate_average_rating returns are in non-increasing order
\* of rounded average, and brands with equal rounded averages stand in the
\* order of their first occurrence in the input
C10_ReportOrdering ==
    CalcReturned =>
        \A j, k \in 1..Len(report_data) :
            j < k =>
                /\ ~Lt(report_data[j].average_rating, report_data[k].average_rating)
                /\ report_data[j].average_rating = report_data[k].average_rating =>
                      FirstIndex(data, report_data[j].brand)
                          < FirstIndex(data, report_data[k].brand)

====
